---- MODULE Spec2Model ----
(***************************************************************************)
(* Model of encoder.py of the customer churn predictor: the two mappers    *)
(* encode_query (free text -> Query Result) and entry_to_record (JSONL     *)
(* entry -> Record Result), with the string conversions they rest on.      *)
(*                                                                         *)
(* Text is a TLA+ string of ASCII characters; TLC evaluates Len, SubSeq,    *)
(* Head, Tail and \o on strings, so every conversion below works character *)
(* by character.                                                           *)
(* A call is a sequence of steps of one caller: its arguments and locals   *)
(* are per caller, the lookup tables are shared by all callers.            *)
(***************************************************************************)
EXTENDS Integers, Sequences, FiniteSets, TLC

(***************************************************************************)
(* Bounds of the model.                                                    *)
(***************************************************************************)
\* A generated query is the concatenation of at most MaxPieces raw pieces.
MaxPieces == 3
\* A generated entry carries at most MaxFields of the candidate fields.
MaxFields == 2
\* The callers that may be inside a call at the same time.
NumCallers == 2

(***************************************************************************)
(* Characters.                                                             *)
(***************************************************************************)
\* The characters of a string, as a set of one-character strings.
CharsOf(s) == { SubSeq(s, i, i) : i \in 1..Len(s) }

\* The pattern class a-z.
AsciiLower == "abcdefghijklmnopqrstuvwxyz"
\* Upper-case letters, with their str.lower() images at the same position.
UpperLetters == "ABCDEFGHIJKLMNOPQRSTUVWXYZ"
LowerLetters == "abcdefghijklmnopqrstuvwxyz"
\* The pattern class 0-9.
AsciiDigits == "0123456789"

\* The character classes of the patterns.
AzChars == CharsOf(AsciiLower)
DigitChars == CharsOf(AsciiDigits)
AzDigitChars == AzChars \cup DigitChars
\* \s of the re module: white space.
SpaceChars == {" ", "\t", "\n"}
IsSpace(c) == c \in SpaceChars
\* \w of the re module, on ASCII text: letters, digits, "_".
WordChars ==
    CharsOf(LowerLetters) \cup CharsOf(UpperLetters) \cup DigitChars \cup {"_"}
WordOrSpaceChars == WordChars \cup SpaceChars

\* str.lower() on one character: an upper-case letter goes to its lower-case
\* form, every other character stays.
LowerOf ==
    [ c \in CharsOf(UpperLetters) |->
        LET i == CHOOSE k \in 1..Len(UpperLetters) : SubSeq(UpperLetters, k, k) = c
        IN  SubSeq(LowerLetters, i, i) ]
LowerChar(c) == IF c \in DOMAIN LowerOf THEN LowerOf[c] ELSE c

(***************************************************************************)
(* String functions of the Python runtime used by encoder.py.              *)
(***************************************************************************)
\* str.lower()
RECURSIVE Lower(_)
Lower(s) == IF s = "" THEN "" ELSE LowerChar(Head(s)) \o Lower(Tail(s))

\* re.sub(r"[^...]", "", s) for a negated character class: the characters of s
\* that belong to the class keep, in order.
RECURSIVE Filter(_, _)
Filter(s, keep) ==
    IF s = "" THEN ""
    ELSE (IF Head(s) \in keep THEN Head(s) ELSE "") \o Filter(Tail(s), keep)

\* str.split(): the maximal runs of non-white-space characters, in order.
RECURSIVE SplitFrom(_, _)
SplitFrom(s, cur) ==
    IF s = "" THEN (IF cur = "" THEN <<>> ELSE <<cur>>)
    ELSE IF IsSpace(Head(s))
         THEN (IF cur = "" THEN <<>> ELSE <<cur>>) \o SplitFrom(Tail(s), "")
         ELSE SplitFrom(Tail(s), cur \o Head(s))
Split(s) == SplitFrom(s, "")

\* sep.join(items)
RECURSIVE Join(_, _)
Join(sep, items) ==
    IF items = <<>> THEN ""
    ELSE IF Len(items) = 1 THEN items[1]
    ELSE items[1] \o sep \o Join(sep, Tail(items))

\* t in text, for strings: t occurs in text as a contiguous substring.
Contains(text, t) ==
    \E i \in 1..(Len(text) - Len(t) + 1) : SubSeq(text, i, i + Len(t) - 1) = t

(***************************************************************************)
(* The lookup tables.                                                      *)
(***************************************************************************)
_USAGE_BANDS ==
    "none" :> "inactive" @@ "zero" :> "inactive" @@ "no" :> "inactive" @@ "inactive" :> "inactive" @@
    "dropping" :> "declining" @@ "declining" :> "declining" @@ "decreasing" :> "declining" @@
    "fewer" :> "declining" @@ "less" :> "declining" @@ "reduced" :> "declining" @@ "low" :> "declining" @@
    "steady" :> "stable" @@ "stable" :> "stable" @@ "normal" :> "stable" @@ "average" :> "stable" @@
    "increasing" :> "growing" @@ "growing" :> "growing" @@ "more" :> "growing" @@ "high" :> "growing" @@
    "active" :> "growing" @@ "frequent" :> "growing"

_CHURN_DRIVERS ==
    "login" :> "low_usage" @@ "usage" :> "low_usage" @@ "logins" :> "low_usage" @@
    "session" :> "low_usage" @@ "activity" :> "low_usage" @@
    "support" :> "support_burden" @@ "ticket" :> "support_burden" @@ "case" :> "support_burden" @@
    "cases" :> "support_burden" @@ "escalation" :> "support_burden" @@
    "defect" :> "defect_frustration" @@ "bug" :> "defect_frustration" @@ "crash" :> "defect_frustration" @@
    "error" :> "defect_frustration" @@ "broken" :> "defect_frustration" @@ "defects" :> "defect_frustration" @@
    "feature" :> "low_adoption" @@ "adoption" :> "low_adoption" @@ "onboard" :> "onboarding_stall" @@
    "billing" :> "billing_friction" @@ "payment" :> "billing_friction" @@ "invoice" :> "billing_friction" @@
    "price" :> "billing_friction" @@ "cost" :> "billing_friction"

\* A dict keeps insertion order: the items, in the order .items() yields them.
_RISK_KEYWORDS == <<
    <<"high", <<"churn", "cancel", "leaving", "at risk", "critical", "red", "danger",
                "inactive", "zero logins", "no activity", "escalat">> >>,
    <<"medium", <<"declining", "dropping", "fewer", "reduced", "warning", "yellow",
                  "slowing", "less active", "some risk">> >>,
    <<"low", <<"stable", "growing", "healthy", "green", "active", "engaged",
               "retained", "happy", "renew">> >> >>

_STOP_WORDS == {
    "how", "do", "i", "a", "the", "to", "is", "what", "my", "an",
    "can", "does", "it", "in", "on", "for", "with", "me", "about",
    "are", "which", "who", "will", "their", "this", "that", "of" }

\* ENCODER_CONFIG: the layers, their segments and the names of the roles of
\* each segment, in the order of declaration.
ENCODER_CONFIG == <<
    [ name |-> "semantic",
      segments |-> <<
        [ name |-> "identity",
          roles |-> <<"customer_id", "risk_level", "churn_driver", "usage_band">> ],
        [ name |-> "context", roles |-> <<"keywords">> ] >> ],
    [ name |-> "metrics",
      segments |-> <<
        [ name |-> "usage",
          roles |-> <<"logins", "support_cases", "defects", "feature_adoption">> ] >> ] >>

(***************************************************************************)
(* The inference helpers.                                                  *)
(***************************************************************************)
\* any(t in text for t in triggers)
AnyTrigger(text, triggers) == \E k \in 1..Len(triggers) : Contains(text, triggers[k])

\* The loop with another level returned when no trigger occurs.
RECURSIVE InferRiskFromDefaultLow(_, _, _)
InferRiskFromDefaultLow(text, items, i) ==
    IF i > Len(items) THEN "low"
    ELSE IF AnyTrigger(text, items[i][2]) THEN items[i][1]
    ELSE InferRiskFromDefaultLow(text, items, i + 1)

\* The for loop of _infer_risk over the items from position i on.
RECURSIVE InferRiskFrom(_, _, _)
InferRiskFrom(text, items, i) ==
    IF i > Len(items) THEN "medium"
    ELSE IF AnyTrigger(text, items[i][2]) THEN items[i][1]
    ELSE InferRiskFrom(text, items, i + 1)

\* _infer_risk with the levels tried in the opposite order.
_infer_risk_low_first(words) ==
    LET items == _RISK_KEYWORDS
        rev == [k \in 1..Len(items) |-> items[Len(items) + 1 - k]]
    IN  InferRiskFrom(Join(" ", words), rev, 1)

_infer_risk(words) == InferRiskFrom(Join(" ", words), _RISK_KEYWORDS, 1)

\* re.sub(r"[^a-z]", "", w)
StripNonAz(w) == Filter(w, AzChars)

\* The scan returning the word it found instead of what the table maps it to.
RECURSIVE ScanWordsKey(_, _, _)
ScanWordsKey(words, table, default) ==
    IF words = <<>> THEN default
    ELSE LET clean == StripNonAz(Head(words))
         IN  IF clean \in DOMAIN table THEN clean
             ELSE ScanWordsKey(Tail(words), table, default)

\* The scan shared by _infer_driver and _infer_usage_band: the table's value at
\* the first word whose stripped form is a key, else the default.
RECURSIVE ScanWords(_, _, _)
ScanWords(words, table, default) ==
    IF words = <<>> THEN default
    ELSE LET clean == StripNonAz(Head(words))
         IN  IF clean \in DOMAIN table THEN table[clean]
             ELSE ScanWords(Tail(words), table, default)

\* The scan that keeps going: the table's value at the last matching word.
RECURSIVE ScanWordsLast(_, _, _)
ScanWordsLast(words, table, default) ==
    IF words = <<>> THEN default
    ELSE LET clean == StripNonAz(Head(words))
         IN  ScanWordsLast(Tail(words), table,
                           IF clean \in DOMAIN table THEN table[clean] ELSE default)

\* _infer_driver returning the last match.
_infer_driver_last(words) == ScanWordsLast(words, _CHURN_DRIVERS, "low_usage")

_infer_driver(words) == ScanWords(words, _CHURN_DRIVERS, "low_usage")

\* _infer_usage_band looking the raw word up, without the re.sub.
RECURSIVE ScanWordsRaw(_, _, _)
ScanWordsRaw(words, table, default) ==
    IF words = <<>> THEN default
    ELSE IF Head(words) \in DOMAIN table THEN table[Head(words)]
    ELSE ScanWordsRaw(Tail(words), table, default)
_infer_usage_band_raw(words) == ScanWordsRaw(words, _USAGE_BANDS, "stable")

_infer_usage_band(words) == ScanWords(words, _USAGE_BANDS, "stable")

(***************************************************************************)
(* Python values: a str, an int, None or a list of such scalars.  Every    *)
(* value has the same fields, so that values of different types compare.   *)
(***************************************************************************)
PyStr(s)  == [type |-> "str",      s |-> s,  n |-> 0, items |-> <<>>]
PyInt(n)  == [type |-> "int",      s |-> "", n |-> n, items |-> <<>>]
PyNone    == [type |-> "NoneType", s |-> "", n |-> 0, items |-> <<>>]
PyList(l) == [type |-> "list",     s |-> "", n |-> 0, items |-> l]

\* The decimal digit d as a character.
DigitChar(d) == SubSeq(AsciiDigits, d + 1, d + 1)

\* str(n) for a non-negative int that fits a machine word.
RECURSIVE DecStr(_)
DecStr(n) == IF n < 10 THEN DigitChar(n) ELSE DecStr(n \div 10) \o DigitChar(n % 10)

\* str(v) of a scalar value.
StrOf(v) ==
    CASE v.type = "str" -> v.s
      [] v.type = "int" -> (IF v.n < 0 THEN "-" \o DecStr(0 - v.n) ELSE DecStr(v.n))
      [] v.type = "NoneType" -> "None"

(***************************************************************************)
(* The name of a query: int(md5(query).hexdigest()[:8], 16) as {:08d}.     *)
(* The value reaches 2^32 - 1, so a Python int is kept as its decimal      *)
(* digits, least significant first.                                        *)
(***************************************************************************)
HexDigits == "0123456789abcdef"
HexValueOf ==
    [ c \in CharsOf(HexDigits) |-> (CHOOSE k \in 1..Len(HexDigits) : SubSeq(HexDigits, k, k) = c) - 1 ]
HexDigitValue(c) == HexValueOf[c]

\* digits * m + carry, on decimal digits least significant first.
RECURSIVE MulAdd(_, _, _)
MulAdd(digits, m, carry) ==
    IF digits = <<>>
    THEN (IF carry = 0 THEN <<>> ELSE <<carry % 10>> \o MulAdd(<<>>, m, carry \div 10))
    ELSE LET v == Head(digits) * m + carry
         IN  <<v % 10>> \o MulAdd(Tail(digits), m, v \div 10)

\* int(h, 16): the digits of the value of the hexadecimal numeral h.
RECURSIVE IntFromHexAcc(_, _)
IntFromHexAcc(h, acc) ==
    IF h = "" THEN acc
    ELSE IntFromHexAcc(Tail(h), MulAdd(acc, 16, HexDigitValue(Head(h))))
IntFromHex(h) == IntFromHexAcc(h, <<>>)

\* The numeral of a digit list, most significant digit first ("0" for zero).
RECURSIVE Numeral(_)
Numeral(digits) ==
    IF digits = <<>> THEN "" ELSE Numeral(Tail(digits)) \o DigitChar(Head(digits))

\* s padded on the left with "0" to at least width characters.
RECURSIVE ZeroPad(_, _)
ZeroPad(s, width) == IF Len(s) >= width THEN s ELSE ZeroPad("0" \o s, width)

\* The width of the format specification 08d.
NameWidth == 8

\* f"{stable_id:08d}"
Format08d(digits) == ZeroPad(IF digits = <<>> THEN "0" ELSE Numeral(digits), NameWidth)

(***************************************************************************)
(* hashlib.md5(query.encode()).hexdigest()[:8].  The digest is library     *)
(* code: it is kept as a fixed function of the raw text into 8 hexadecimal *)
(* digits.  The texts of KnownMd5 carry their true digest prefix; any      *)
(* other text takes one of HexPrefixes, picked by a checksum of its        *)
(* characters, so that the prefixes range over the 32-bit values.          *)
(***************************************************************************)
KnownMd5 ==
    "" :> "d41d8cd9" @@
    "find at-risk customers" :> "adcca704" @@
    "xyz qqq" :> "da9fb35e" @@
    "how do I find the customers at risk" :> "a65f749e" @@
    "customer is completely inactive with zero logins" :> "e315cb56" @@
    "customer is active and engaged with growing usage" :> "653ae29a"

HexPrefixes == << "00000000", "0000002a", "05f5e0ff", "05f5e100", "3b9ac9ff",
                  "3b9aca00", "7fffffff", "80000000", "ffffffff" >>

CodeOrder == " \t\n_-!,?0123456789" \o LowerLetters \o UpperLetters
CodeOf ==
    [ c \in CharsOf(CodeOrder) |->
        CHOOSE k \in 1..Len(CodeOrder) : SubSeq(CodeOrder, k, k) = c ]
CharCode(c) == IF c \in DOMAIN CodeOf THEN CodeOf[c] ELSE 0

RECURSIVE Checksum(_, _)
Checksum(text, i) ==
    IF text = "" THEN 0
    ELSE (i * CharCode(Head(text)) + Checksum(Tail(text), i + 1)) % 65521

Md5Hex8(text) ==
    IF text \in DOMAIN KnownMd5 THEN KnownMd5[text]
    ELSE HexPrefixes[(Checksum(text, 1) % Len(HexPrefixes)) + 1]

(***************************************************************************)
(* The inputs.                                                             *)
(***************************************************************************)
\* Raw pieces of query text: trigger, driver, usage-band and stop words in
\* several spellings, with the white space and punctuation around them.
Pieces == { "Churn ", "stable", "at", " risk", "reduced ", "The ", "Bug2, ",
            "support", "xyz", "less\t", "active", "in", "_9 ", "?!\n" }

RECURSIVE QueriesUpTo(_)
QueriesUpTo(n) ==
    IF n = 0 THEN {""}
    ELSE LET prev == QueriesUpTo(n - 1)
         IN  prev \cup { q \o p : q \in prev, p \in Pieces }

\* The query texts of tests/test_queries.py and of the spec's scenarios.
TestQueries == DOMAIN KnownMd5

\* The queries that are one trigger of the risk table and nothing else.
TriggerQueries ==
    UNION { { _RISK_KEYWORDS[i][2][j] : j \in 1..Len(_RISK_KEYWORDS[i][2]) } :
            i \in 1..Len(_RISK_KEYWORDS) }

Queries == QueriesUpTo(MaxPieces) \cup TestQueries \cup TriggerQueries

\* Candidate fields of an entry: the documented keys with well-formed,
\* boundary and malformed values, and one undocumented key.
Candidates == {
    <<"question", PyStr("Why?")>>, <<"question", PyStr("Zero logins -- at RISK?!")>>,
    <<"question", PyStr("Which accounts are at risk of churn now, and why?")>>,
    <<"question", PyStr("Is the customer in region 7 about to leave us for a rival?")>>,
    <<"question", PyNone>>,
    <<"customer_id", PyStr("c-001")>>, <<"customer_id", PyStr("")>>,
    <<"risk_level", PyStr("high")>>, <<"risk_level", PyStr("severe")>>,
    <<"churn_driver", PyStr("billing_friction")>>,
    <<"usage_band", PyStr("growing")>>,
    <<"keywords", PyList(<<PyStr("a"), PyStr("b")>>)>>, <<"keywords", PyList(<<>>)>>,
    <<"keywords", PyList(<<PyStr("a"), PyInt(1)>>)>>,
    <<"keywords", PyStr("low usage")>>, <<"keywords", PyInt(7)>>, <<"keywords", PyNone>>,
    <<"logins", PyInt(0)>>, <<"logins", PyInt(250)>>, <<"logins", PyStr("12")>>,
    <<"support_cases", PyInt(0)>>,
    <<"defects", PyInt(0)>>,
    <<"feature_adoption", PyInt(0)>>,
    <<"response", PyStr("Offer a call.")>>,
    <<"recommended_action", PyStr("escalate")>>,
    <<"note", PyStr("n/a")>> }

RECURSIVE EntriesUpTo(_)
EntriesUpTo(n) ==
    IF n = 0 THEN { <<>> }
    ELSE LET prev == EntriesUpTo(n - 1)
         IN  prev \cup { e @@ (f[1] :> f[2]) : e \in prev, f \in Candidates }

\* The entry of the spec's literal scenario.
TestEntries == {
    "question" :> PyStr("Why?") @@ "logins" :> PyInt(0) @@ "support_cases" :> PyInt(0) @@
    "defects" :> PyInt(0) @@ "feature_adoption" :> PyInt(0) }

Entries == EntriesUpTo(MaxFields) \cup TestEntries

\* The inputs of the interleaved callers.
ConcQueries == { "find at-risk customers", "xyz qqq", "Churn stable" }
ConcEntries == TestEntries \cup { "keywords" :> PyList(<<PyStr("a"), PyStr("b")>>) }

(***************************************************************************)
(* The state: each caller's position, its call, its locals and what the    *)
(* call gave back.                                                         *)
(***************************************************************************)
VARIABLES
    pc,      \* pc[c]: "idle", the line the call of c runs next, or "done"
    call,    \* call[c]: the function c called and its argument
    frame,   \* frame[c]: the locals of the call
    result   \* result[c]: the value returned or the exception raised

vars == <<pc, call, frame, result>>

Callers == 1..NumCallers

NoCall   == [fn |-> "", arg |-> ""]
NoFrame  == <<>>
NoResult == [kind |-> "none", exc |-> "", value |-> <<>>]
Returned(v) == [kind |-> "return", exc |-> "", value |-> v]
Raised(e)   == [kind |-> "raise", exc |-> e, value |-> <<>>]

Init ==
    /\ pc = [c \in Callers |-> "idle"]
    /\ call = [c \in Callers |-> NoCall]
    /\ frame = [c \in Callers |-> NoFrame]
    /\ result = [c \in Callers |-> NoResult]

(***************************************************************************)
(* encode_query                                                            *)
(***************************************************************************)
\* The call with words kept in one buffer of the module instead of a local:
\* every call between its lines 212 and 214 sees the words written last.
EncodeQueryCallSharedWords(c, q) ==
    /\ LET cleaned == Filter(Lower(q), WordOrSpaceChars)
           f == [cleaned |-> cleaned, words |-> Split(cleaned)]
       IN  frame' = [d \in Callers |->
                        IF d = c \/ pc[d] = "encode_query:214" THEN f ELSE frame[d]]
    /\ call' = [call EXCEPT ![c] = [fn |-> "encode_query", arg |-> q]]
    /\ result' = [result EXCEPT ![c] = NoResult]
    /\ pc' = [pc EXCEPT ![c] = "encode_query:214"]

\* The call and lines 211-212: the query is lowercased, stripped of every
\* character that is neither a word character nor white space, and split.
EncodeQueryCall(c, q) ==
    /\ LET cleaned == Filter(Lower(q), WordOrSpaceChars)
       IN  frame' = [frame EXCEPT ![c] = [cleaned |-> cleaned, words |-> Split(cleaned)]]
    /\ call' = [call EXCEPT ![c] = [fn |-> "encode_query", arg |-> q]]
    /\ result' = [result EXCEPT ![c] = NoResult]
    /\ pc' = [pc EXCEPT ![c] = "encode_query:214"]

\* An idle caller calls encode_query with one of the queries.
CallEncodeQuery(c, queries) ==
    /\ pc[c] = "idle"
    /\ \E q \in queries : EncodeQueryCall(c, q)

\* The keywords without the stop-word test.
KeywordsUnfiltered(words) == Join(" ", words)

\* " ".join(w for w in words if w not in _STOP_WORDS)
Keywords(words) == Join(" ", SelectSeq(words, LAMBDA w : w \notin _STOP_WORDS))

\* Lines 214-217: the three inferences and the keywords.
EncodeQueryInfer(c) ==
    /\ pc[c] = "encode_query:214"
    /\ LET words == frame[c].words
       IN  frame' = [frame EXCEPT ![c] =
                [ cleaned |-> frame[c].cleaned, words |-> words,
                  risk |-> _infer_risk(words),
                  driver |-> _infer_driver(words),
                  usage_band |-> _infer_usage_band(words),
                  keywords |-> Keywords(words) ]]
    /\ pc' = [pc EXCEPT ![c] = "encode_query:219"]
    /\ UNCHANGED <<call, result>>

\* The dict with the metrics of an empty account.
QueryResultZeroMetrics(query, f) ==
    [ name |-> "query_" \o Format08d(IntFromHex(Md5Hex8(query))),
      attributes |->
        "customer_id" :> PyStr("") @@
        "risk_level" :> PyStr(f.risk) @@
        "churn_driver" :> PyStr(f.driver) @@
        "usage_band" :> PyStr(f.usage_band) @@
        "keywords" :> PyStr(f.keywords) @@
        "logins" :> PyInt(0) @@
        "support_cases" :> PyInt(0) @@
        "defects" :> PyInt(0) @@
        "feature_adoption" :> PyInt(0) ]

\* The dict of lines 221-234.
QueryResult(query, f) ==
    [ name |-> "query_" \o Format08d(IntFromHex(Md5Hex8(query))),
      attributes |->
        "customer_id" :> PyStr("") @@
        "risk_level" :> PyStr(f.risk) @@
        "churn_driver" :> PyStr(f.driver) @@
        "usage_band" :> PyStr(f.usage_band) @@
        "keywords" :> PyStr(f.keywords) @@
        "logins" :> PyInt(50) @@
        "support_cases" :> PyInt(2) @@
        "defects" :> PyInt(1) @@
        "feature_adoption" :> PyInt(50) ]

\* Lines 219-234: the name from the digest of the raw query, and the return.
EncodeQueryReturn(c) ==
    /\ pc[c] = "encode_query:219"
    /\ result' = [result EXCEPT ![c] = Returned(QueryResult(call[c].arg, frame[c]))]
    /\ frame' = [frame EXCEPT ![c] = NoFrame]
    /\ pc' = [pc EXCEPT ![c] = "done"]
    /\ UNCHANGED call

(***************************************************************************)
(* entry_to_record                                                         *)
(***************************************************************************)
\* bool(v)
Truthy(v) ==
    CASE v.type = "str" -> v.s # ""
      [] v.type = "int" -> v.n # 0
      [] v.type = "list" -> v.items # <<>>
      [] v.type = "NoneType" -> FALSE

\* entry.get(key) or default: a falsy value gives way to the default.
GetOrDefault(entry, key, default) ==
    IF key \in DOMAIN entry /\ Truthy(entry[key]) THEN entry[key] ELSE default

\* entry.get(key, default)
Get(entry, key, default) == IF key \in DOMAIN entry THEN entry[key] ELSE default

\* re.sub(r"[^a-z0-9]+", "_", s): each maximal run of characters outside
\* a-z0-9 becomes one "_"; inRun tells that the run has begun.
RECURSIVE SubRuns(_, _)
SubRuns(s, inRun) ==
    IF s = "" THEN ""
    ELSE IF Head(s) \in AzDigitChars
         THEN Head(s) \o SubRuns(Tail(s), FALSE)
         ELSE (IF inRun THEN "" ELSE "_") \o SubRuns(Tail(s), TRUE)

\* str.strip("_")
RECURSIVE LStrip(_)
LStrip(s) == IF s # "" /\ Head(s) = "_" THEN LStrip(Tail(s)) ELSE s
RECURSIVE RStrip(_)
RStrip(s) ==
    IF s # "" /\ SubSeq(s, Len(s), Len(s)) = "_" THEN RStrip(SubSeq(s, 1, Len(s) - 1)) ELSE s
Strip(s) == RStrip(LStrip(s))

\* The length of the slice [:40].
SlugLen == 40

\* s[:n]
Prefix(s, n) == SubSeq(s, 1, IF Len(s) < n THEN Len(s) ELSE n)

\* Line 251 without the strip.
SlugUnstripped(question) == Prefix(SubRuns(question, FALSE), SlugLen)

\* Line 251.
Slug(question) == Prefix(Strip(SubRuns(question, FALSE)), SlugLen)

\* " ".join accepts only str items.
KwIsJoinable(kw_list) == \A k \in 1..Len(kw_list.items) : kw_list.items[k].type = "str"

\* Line 249 joining with a comma.
KwStrComma(kw_list) ==
    IF kw_list.type = "list"
    THEN Join(",", [k \in 1..Len(kw_list.items) |-> kw_list.items[k].s])
    ELSE StrOf(kw_list)

\* Line 249: a list is joined with single spaces; any other value is
\* converted by str().
KwStr(kw_list) ==
    IF kw_list.type = "list"
    THEN Join(" ", [k \in 1..Len(kw_list.items) |-> kw_list.items[k].s])
    ELSE StrOf(kw_list)

\* The call and lines 243-251: the reads of the entry.  A question that is
\* not a str has no lower(), and join() rejects an item that is not a str:
\* the call ends with the exception.
EntryToRecordCall(c, e) ==
    /\ call' = [call EXCEPT ![c] = [fn |-> "entry_to_record", arg |-> e]]
    /\ LET q == Get(e, "question", PyStr(""))
           kw_list == Get(e, "keywords", PyList(<<>>))
       IN  IF q.type # "str"
           THEN /\ result' = [result EXCEPT ![c] = Raised("AttributeError")]
                /\ frame' = [frame EXCEPT ![c] = NoFrame]
                /\ pc' = [pc EXCEPT ![c] = "done"]
           ELSE IF kw_list.type = "list" /\ ~KwIsJoinable(kw_list)
           THEN /\ result' = [result EXCEPT ![c] = Raised("TypeError")]
                /\ frame' = [frame EXCEPT ![c] = NoFrame]
                /\ pc' = [pc EXCEPT ![c] = "done"]
           ELSE /\ result' = [result EXCEPT ![c] = NoResult]
                /\ frame' = [frame EXCEPT ![c] =
                       [ question |-> Lower(q.s),
                         customer_id |-> Get(e, "customer_id", PyStr("")),
                         risk |-> Get(e, "risk_level", PyStr("medium")),
                         driver |-> Get(e, "churn_driver", PyStr("low_usage")),
                         usage_band |-> Get(e, "usage_band", PyStr("stable")),
                         kw_list |-> kw_list,
                         kw_str |-> KwStr(kw_list),
                         slug |-> Slug(Lower(q.s)) ]]
                /\ pc' = [pc EXCEPT ![c] = "entry_to_record:253"]

\* An idle caller calls entry_to_record with one of the entries.
CallEntryToRecord(c, entries) ==
    /\ pc[c] = "idle"
    /\ \E e \in entries : EntryToRecordCall(c, e)

\* The dict built over the entry, {**entry, ...}: the keys of the entry that
\* the attributes do not set pass through.
RecordResultOverEntry(entry, f) ==
    [ concept_text |-> f.question,
      attributes |->
        ( "customer_id" :> f.customer_id @@
          "risk_level" :> f.risk @@
          "churn_driver" :> f.driver @@
          "usage_band" :> f.usage_band @@
          "keywords" :> PyStr(f.kw_str) @@
          "logins" :> Get(entry, "logins", PyInt(50)) @@
          "support_cases" :> Get(entry, "support_cases", PyInt(2)) @@
          "defects" :> Get(entry, "defects", PyInt(1)) @@
          "feature_adoption" :> Get(entry, "feature_adoption", PyInt(50)) ) @@ entry,
      metadata |->
        "response" :> Get(entry, "response", PyStr("")) @@
        "risk_level" :> f.risk @@
        "churn_driver" :> f.driver @@
        "recommended_action" :> Get(entry, "recommended_action", PyStr("")) @@
        "original_question" :> PyStr(f.question) ]

\* The dict of lines 253-273.
RecordResult(entry, f) ==
    [ concept_text |-> f.question,
      attributes |->
        "customer_id" :> f.customer_id @@
        "risk_level" :> f.risk @@
        "churn_driver" :> f.driver @@
        "usage_band" :> f.usage_band @@
        "keywords" :> PyStr(f.kw_str) @@
        "logins" :> Get(entry, "logins", PyInt(50)) @@
        "support_cases" :> Get(entry, "support_cases", PyInt(2)) @@
        "defects" :> Get(entry, "defects", PyInt(1)) @@
        "feature_adoption" :> Get(entry, "feature_adoption", PyInt(50)),
      metadata |->
        "response" :> Get(entry, "response", PyStr("")) @@
        "risk_level" :> f.risk @@
        "churn_driver" :> f.driver @@
        "recommended_action" :> Get(entry, "recommended_action", PyStr("")) @@
        "original_question" :> PyStr(f.question) ]

\* Lines 253-273: the return.
EntryToRecordReturn(c) ==
    /\ pc[c] = "entry_to_record:253"
    /\ result' = [result EXCEPT ![c] = Returned(RecordResult(call[c].arg, frame[c]))]
    /\ frame' = [frame EXCEPT ![c] = NoFrame]
    /\ pc' = [pc EXCEPT ![c] = "done"]
    /\ UNCHANGED call

(***************************************************************************)
(* The caller.                                                             *)
(***************************************************************************)
\* The caller is through with what the call gave back and may call again.
Release(c) ==
    /\ pc[c] = "done"
    /\ pc' = [pc EXCEPT ![c] = "idle"]
    /\ call' = [call EXCEPT ![c] = NoCall]
    /\ result' = [result EXCEPT ![c] = NoResult]
    /\ UNCHANGED frame

(***************************************************************************)
(* The specifications.  Spec: one caller, over all the inputs.  SpecConc:  *)
(* every caller, their steps interleaved, over the small inputs.           *)
(***************************************************************************)
Next ==
    \/ CallEncodeQuery(1, Queries)
    \/ EncodeQueryInfer(1)
    \/ EncodeQueryReturn(1)
    \/ CallEntryToRecord(1, Entries)
    \/ EntryToRecordReturn(1)
    \/ Release(1)

Spec == Init /\ [][Next]_vars

NextConc ==
    \E c \in Callers :
        \/ CallEncodeQuery(c, ConcQueries)
        \/ EncodeQueryInfer(c)
        \/ EncodeQueryReturn(c)
        \/ CallEntryToRecord(c, ConcEntries)
        \/ EntryToRecordReturn(c)
        \/ Release(c)

SpecConc == Init /\ [][NextConc]_vars

(***************************************************************************)
(* Properties.  A property of encode_query speaks of a caller whose call   *)
(* has returned, and of the query it passed.                               *)
(***************************************************************************)
QueryDone(c) ==
    pc[c] = "done" /\ call[c].fn = "encode_query" /\ result[c].kind = "return"
RecordDone(c) ==
    pc[c] = "done" /\ call[c].fn = "entry_to_record" /\ result[c].kind = "return"
Attr(c, key) == result[c].value.attributes[key]

\* The normalized tokens of a query: lowercased, the characters that are
\* neither word characters nor white space removed, split at white space.
Tokens(q) == Split(Filter(Lower(q), WordOrSpaceChars))
\* The space-joined token string.
TokenText(q) == Join(" ", Tokens(q))

\* The triggers listed under a level of the risk table.
TriggerSets ==
    [ level \in {"high", "medium", "low"} |->
        LET i == CHOOSE k \in 1..Len(_RISK_KEYWORDS) : _RISK_KEYWORDS[k][1] = level
        IN  { _RISK_KEYWORDS[i][2][j] : j \in 1..Len(_RISK_KEYWORDS[i][2]) } ]
TriggersOf(level) == TriggerSets[level]
\* A trigger of the level occurs in the text.
Occurs(text, level) == \E t \in TriggersOf(level) : Contains(text, t)
HasTrigger(q, level) == Occurs(TokenText(q), level)

\* C1: the risk level of a query is "high" if a high trigger occurs in the
\* space-joined token string, else "medium" if a medium trigger occurs, else
\* "low" if a low trigger occurs, else "medium"; so a query with a high and a
\* low (or medium) trigger is "high".
C1_RiskPriority ==
    \A c \in Callers :
        QueryDone(c) =>
            LET text == TokenText(call[c].arg)
            IN  Attr(c, "risk_level") =
                    PyStr(IF Occurs(text, "high") THEN "high"
                          ELSE IF Occurs(text, "medium") THEN "medium"
                          ELSE IF Occurs(text, "low") THEN "low"
                          ELSE "medium")

\* A query with a high and a low trigger has returned "high".
C1_Witness ==
    \E c \in Callers :
        /\ QueryDone(c)
        /\ HasTrigger(call[c].arg, "high") /\ HasTrigger(call[c].arg, "low")
        /\ Attr(c, "risk_level") = PyStr("high")

\* The letters a-z of a token, in order: the token with every other character
\* stripped.
RECURSIVE LettersOf(_)
LettersOf(w) ==
    IF w = "" THEN ""
    ELSE (IF Head(w) \in AzChars THEN Head(w) ELSE "") \o LettersOf(Tail(w))

\* The positions of the tokens whose stripped form is a key of the table.
MatchesIn(toks, table) == { i \in 1..Len(toks) : LettersOf(toks[i]) \in DOMAIN table }
\* The least position of a non-empty set of positions.
First(S) == CHOOSE i \in S : \A j \in S : i <= j

\* What the first matching token maps to, or the default.
FirstMatch(toks, table, default) ==
    IF MatchesIn(toks, table) = {} THEN default
    ELSE table[LettersOf(toks[First(MatchesIn(toks, table))])]

\* C2: churn_driver is the driver of the first token, in input order, whose
\* form stripped of every character but the letters a-z is a key of the
\* word-to-driver table, whatever driver words follow; "low_usage" if none.
C2_DriverFirstMatch ==
    \A c \in Callers :
        QueryDone(c) =>
            Attr(c, "churn_driver") =
                PyStr(FirstMatch(Tokens(call[c].arg), _CHURN_DRIVERS, "low_usage"))

\* A query has returned whose first driver word carries characters that are
\* stripped and is followed by a word of another driver.
C2_Witness ==
    \E c \in Callers :
        /\ QueryDone(c)
        /\ LET toks == Tokens(call[c].arg)
               m == MatchesIn(toks, _CHURN_DRIVERS)
           IN  /\ m # {}
               /\ toks[First(m)] \notin DOMAIN _CHURN_DRIVERS
               /\ \E j \in m : _CHURN_DRIVERS[LettersOf(toks[j])] #
                               _CHURN_DRIVERS[LettersOf(toks[First(m)])]

\* C3: usage_band is the band of the first token, in input order, whose form
\* stripped of every character but the letters a-z is a key of the
\* word-to-usage_band table; "stable" if none.
C3_UsageBandFirstMatch ==
    \A c \in Callers :
        QueryDone(c) =>
            Attr(c, "usage_band") =
                PyStr(FirstMatch(Tokens(call[c].arg), _USAGE_BANDS, "stable"))

\* A query has returned whose first usage word carries characters that are
\* stripped and is followed by a word of another band.
C3_Witness ==
    \E c \in Callers :
        /\ QueryDone(c)
        /\ LET toks == Tokens(call[c].arg)
               m == MatchesIn(toks, _USAGE_BANDS)
           IN  /\ m # {}
               /\ toks[First(m)] \notin DOMAIN _USAGE_BANDS
               /\ \E j \in m : _USAGE_BANDS[LettersOf(toks[j])] #
                               _USAGE_BANDS[LettersOf(toks[First(m)])]

\* The positions of the tokens that are not stop words.
KeptAt(toks) == { i \in 1..Len(toks) : toks[i] \notin _STOP_WORDS }
\* The position of the j-th token that is not a stop word.
KeptIndex(toks, j) ==
    CHOOSE i \in KeptAt(toks) : Cardinality({ m \in KeptAt(toks) : m <= i }) = j

\* C4: the words of keywords are exactly the tokens that are not stop words,
\* each at its place in the original order, and keywords holds them joined by
\* single spaces: no word of it is a stop word, none is lost or reordered.
C4_KeywordsAreNonStopTokens ==
    \A c \in Callers :
        QueryDone(c) =>
            LET toks == Tokens(call[c].arg)
                kw == Attr(c, "keywords").s
                ks == Split(kw)
            IN  /\ Attr(c, "keywords").type = "str"
                /\ Len(ks) = Cardinality(KeptAt(toks))
                /\ \A j \in 1..Len(ks) : ks[j] = toks[KeptIndex(toks, j)]
                /\ \A j \in 1..Len(ks) : ks[j] \notin _STOP_WORDS
                /\ Len(kw) = (IF ks = <<>> THEN 0
                              ELSE Len(ks) - 1 + Len(Join("", ks)))
                /\ \A i \in 1..Len(kw) : SubSeq(kw, i, i) \notin {"\t", "\n"}

\* A query has returned that has a stop word after a token that is kept and
\* before another.
C4_Witness ==
    \E c \in Callers :
        /\ QueryDone(c)
        /\ LET toks == Tokens(call[c].arg)
           IN  \E i, j, k \in 1..Len(toks) :
                  /\ i < j /\ j < k
                  /\ toks[i] \notin _STOP_WORDS
                  /\ toks[j] \in _STOP_WORDS
                  /\ toks[k] \notin _STOP_WORDS
        /\ Attr(c, "keywords").s # ""

\* s is a non-empty run of decimal digits.
IsDigits(s) == s # "" /\ \A i \in 1..Len(s) : SubSeq(s, i, i) \in DigitChars
NameOf(c) == result[c].value.name

\* C5: the name of a Query Result is "query_" followed by exactly 8 decimal
\* digits.
C5_NameHasEightDigits ==
    \A c \in Callers :
        QueryDone(c) =>
            /\ SubSeq(NameOf(c), 1, 6) = "query_"
            /\ Len(NameOf(c)) = 6 + 8
            /\ IsDigits(SubSeq(NameOf(c), 7, Len(NameOf(c))))

\* C6: two calls of encode_query with the same string, by any two callers and
\* whatever calls ran before, between or during them, return the same name
\* and the same attributes.
C6_EncodeQueryDeterministic ==
    \A c, d \in Callers :
        (QueryDone(c) /\ QueryDone(d) /\ call[c].arg = call[d].arg) =>
            /\ result[c].value.name = result[d].value.name
            /\ result[c].value.attributes = result[d].value.attributes

\* Two callers hold the results of calls with the same query.
C6_Witness ==
    \E c, d \in Callers :
        /\ c # d
        /\ QueryDone(c) /\ QueryDone(d)
        /\ call[c].arg = call[d].arg
        /\ result[c] = result[d]

\* C7: every Query Result has customer_id "" and the four metrics at
\* logins = 50, support_cases = 2, defects = 1, feature_adoption = 50.
C7_QueryFixedAttributes ==
    \A c \in Callers :
        QueryDone(c) =>
            /\ Attr(c, "customer_id") = PyStr("")
            /\ Attr(c, "logins") = PyInt(50)
            /\ Attr(c, "support_cases") = PyInt(2)
            /\ Attr(c, "defects") = PyInt(1)
            /\ Attr(c, "feature_adoption") = PyInt(50)

\* A query that speaks of an inactive account with a number in it has
\* returned the fixed values.
C7_Witness ==
    \E c \in Callers :
        /\ QueryDone(c)
        /\ \E i \in 1..Len(call[c].arg) : SubSeq(call[c].arg, i, i) \in DigitChars
        /\ Attr(c, "risk_level") = PyStr("high")
        /\ Attr(c, "customer_id") = PyStr("")
        /\ Attr(c, "logins") = PyInt(50)

\* A query with no recognizable token: no trigger of any level occurs in its
\* token string, and no token's stripped form is a key of either table.
Unrecognizable(q) ==
    LET toks == Tokens(q)
        text == Join(" ", toks)
    IN  /\ MatchesIn(toks, _CHURN_DRIVERS) = {}
        /\ MatchesIn(toks, _USAGE_BANDS) = {}
        /\ \A level \in {"high", "medium", "low"} : ~Occurs(text, level)

\* C8: a query with no recognizable token, the empty string and the strings
\* without tokens among them, returns risk_level "medium", churn_driver
\* "low_usage", usage_band "stable", and as keywords its tokens that are not
\* stop words joined by spaces (the empty string when there is none).
C8_DefaultsWhenUnrecognizable ==
    \A c \in Callers :
        (QueryDone(c) /\ Unrecognizable(call[c].arg)) =>
            LET toks == Tokens(call[c].arg)
                kept == [j \in 1..Cardinality(KeptAt(toks)) |-> toks[KeptIndex(toks, j)]]
            IN  /\ Attr(c, "risk_level") = PyStr("medium")
                /\ Attr(c, "churn_driver") = PyStr("low_usage")
                /\ Attr(c, "usage_band") = PyStr("stable")
                /\ Attr(c, "keywords") = PyStr(Join(" ", kept))
                /\ toks = <<>> => Attr(c, "keywords") = PyStr("")

\* A query of characters without any token has returned the defaults.
C8_Witness ==
    \E c \in Callers :
        /\ QueryDone(c)
        /\ call[c].arg # ""
        /\ Tokens(call[c].arg) = <<>>
        /\ Attr(c, "risk_level") = PyStr("medium")
        /\ Attr(c, "keywords") = PyStr("")

\* A query of unrecognizable tokens has returned the defaults and its tokens.
C8_WitnessTokens ==
    \E c \in Callers :
        /\ QueryDone(c)
        /\ Unrecognizable(call[c].arg)
        /\ Tokens(call[c].arg) # <<>>
        /\ Attr(c, "keywords") # PyStr("")

\* The defaults of the fields of a record.
FieldDefaults ==
    "customer_id" :> PyStr("") @@ "risk_level" :> PyStr("medium") @@
    "churn_driver" :> PyStr("low_usage") @@ "usage_band" :> PyStr("stable") @@
    "logins" :> PyInt(50) @@ "support_cases" :> PyInt(2) @@
    "defects" :> PyInt(1) @@ "feature_adoption" :> PyInt(50)

\* C9: in a Record Result each of customer_id, risk_level, churn_driver,
\* usage_band, logins, support_cases, defects and feature_adoption has the
\* entry's value when the entry has the key (0 and "" included, of any type
\* and range), and its default exactly when the entry has not.
C9_FieldsVerbatimOrDefault ==
    \A c \in Callers :
        RecordDone(c) =>
            \A key \in DOMAIN FieldDefaults :
                /\ key \in DOMAIN call[c].arg => Attr(c, key) = call[c].arg[key]
                /\ key \notin DOMAIN call[c].arg => Attr(c, key) = FieldDefaults[key]

\* A record has returned for an entry with logins 0, a metric of another type
\* or out of range, or an empty customer_id, and without risk_level.
C9_Witness ==
    \E c \in Callers :
        /\ RecordDone(c)
        /\ "logins" \in DOMAIN call[c].arg
        /\ call[c].arg["logins"] = PyInt(0)
        /\ Attr(c, "logins") = PyInt(0)
        /\ "risk_level" \notin DOMAIN call[c].arg
        /\ Attr(c, "risk_level") = PyStr("medium")

\* The place before the k-th item in the items joined by one character.
RECURSIVE OffsetOf(_, _)
OffsetOf(items, k) ==
    IF k = 1 THEN 0 ELSE OffsetOf(items, k - 1) + Len(items[k - 1].s) + 1

\* kw is the items in order, one space between each item and the next.
IsSpaceJoined(kw, items) ==
    LET n == Len(items)
    IN  /\ Len(kw) = (IF n = 0 THEN 0 ELSE OffsetOf(items, n) + Len(items[n].s))
        /\ \A k \in 1..n :
              SubSeq(kw, OffsetOf(items, k) + 1, OffsetOf(items, k) + Len(items[k].s))
                  = items[k].s
        /\ \A k \in 2..n : SubSeq(kw, OffsetOf(items, k), OffsetOf(items, k)) = " "

\* The value of a decimal numeral.
RECURSIVE DecimalValue(_)
DecimalValue(s) ==
    IF s = "" THEN 0
    ELSE 10 * DecimalValue(SubSeq(s, 1, Len(s) - 1))
         + (CHOOSE d \in 0..9 : DigitChar(d) = SubSeq(s, Len(s), Len(s)))

\* kw is the string conversion of the scalar v.
IsStrOf(kw, v) ==
    CASE v.type = "str" -> kw = v.s
      [] v.type = "int" -> /\ v.n >= 0
                           /\ IsDigits(kw)
                           /\ (Len(kw) = 1 \/ Head(kw) # "0")
                           /\ DecimalValue(kw) = v.n
      [] v.type = "NoneType" -> kw = "None"
      [] OTHER -> FALSE

\* C10: the keywords attribute of a Record Result is the elements joined by
\* single spaces when the entry's keywords is a list of strings, the string
\* conversion of the value when it is a scalar, and "" when the entry has no
\* keywords.
C10_KeywordsOfRecord ==
    \A c \in Callers :
        RecordDone(c) =>
            LET e == call[c].arg
                kw == Attr(c, "keywords")
            IN  /\ kw.type = "str"
                /\ "keywords" \notin DOMAIN e => kw.s = ""
                /\ ("keywords" \in DOMAIN e /\ e["keywords"].type = "list")
                      => IsSpaceJoined(kw.s, e["keywords"].items)
                /\ ("keywords" \in DOMAIN e /\ e["keywords"].type # "list")
                      => IsStrOf(kw.s, e["keywords"])

\* A record has returned for an entry whose keywords is a list of two strings.
C10_Witness ==
    \E c \in Callers :
        /\ RecordDone(c)
        /\ "keywords" \in DOMAIN call[c].arg
        /\ call[c].arg["keywords"].type = "list"
        /\ Len(call[c].arg["keywords"].items) = 2
        /\ Attr(c, "keywords") = PyStr("a b")

\* A record has returned for an entry whose keywords is a number.
C10_WitnessScalar ==
    \E c \in Callers :
        /\ RecordDone(c)
        /\ "keywords" \in DOMAIN call[c].arg
        /\ call[c].arg["keywords"].type = "int"
        /\ Attr(c, "keywords") = PyStr("7")

\* A call of entry_to_record has ended, with a value or with an exception.
RecordEnded(c) == pc[c] = "done" /\ call[c].fn = "entry_to_record"

\* C11: entry_to_record is total: whatever keys an entry has and whatever the
\* type of each value, the call returns a Record Result and never ends in an
\* error.
C11_EntryToRecordTotal ==
    \A c \in Callers : RecordEnded(c) => result[c].kind = "return"

\* The names of the roles that ENCODER_CONFIG declares.
DeclaredRoles ==
    UNION { UNION { { ENCODER_CONFIG[l].segments[g].roles[r] :
                        r \in 1..Len(ENCODER_CONFIG[l].segments[g].roles) } :
                    g \in 1..Len(ENCODER_CONFIG[l].segments) } :
            l \in 1..Len(ENCODER_CONFIG) }

\* C12: the keys of the attributes of every Query Result and of every Record
\* Result are exactly the role names ENCODER_CONFIG declares, whatever keys
\* the entry has or lacks.
C12_AttributeKeysAreRoles ==
    \A c \in Callers :
        (QueryDone(c) \/ RecordDone(c)) =>
            DOMAIN result[c].value.attributes = DeclaredRoles

\* A record has returned for an entry with an undeclared key and without
\* most of the declared ones.
C12_Witness ==
    \E c \in Callers :
        /\ RecordDone(c)
        /\ "note" \in DOMAIN call[c].arg
        /\ "logins" \notin DOMAIN call[c].arg
        /\ "note" \notin DOMAIN result[c].value.attributes
        /\ "logins" \in DOMAIN result[c].value.attributes

\* The declared vocabularies of the categorical attributes.
Vocabulary ==
    "risk_level" :> { PyStr(v) : v \in {"high", "medium", "low"} } @@
    "churn_driver" :> { PyStr(v) : v \in {"low_usage", "support_burden", "defect_frustration",
                                          "low_adoption", "onboarding_stall",
                                          "billing_friction"} } @@
    "usage_band" :> { PyStr(v) : v \in {"inactive", "declining", "stable", "growing"} }

\* C13, as claimed: in every Query Result and in every Record Result,
\* risk_level, churn_driver and usage_band lie in their declared vocabularies.
C13_InVocabulary ==
    \A c \in Callers :
        (QueryDone(c) \/ RecordDone(c)) =>
            \A key \in DOMAIN Vocabulary : Attr(c, key) \in Vocabulary[key]

\* C13, amended: in every Query Result the three categorical attributes lie
\* in their vocabularies; in a Record Result each of them lies in its
\* vocabulary when the entry has not the key or has it with a value of the
\* vocabulary (the value of the entry is passed on as it is).
C13_InVocabularyUnlessGiven ==
    \A c \in Callers :
        /\ QueryDone(c) =>
              \A key \in DOMAIN Vocabulary : Attr(c, key) \in Vocabulary[key]
        /\ RecordDone(c) =>
              \A key \in DOMAIN Vocabulary :
                  (key \notin DOMAIN call[c].arg \/ call[c].arg[key] \in Vocabulary[key])
                      => Attr(c, key) \in Vocabulary[key]

\* A record has returned for an entry that gives one categorical field and
\* leaves the others to their defaults.
C13_Witness ==
    \E c \in Callers :
        /\ RecordDone(c)
        /\ "usage_band" \in DOMAIN call[c].arg
        /\ "risk_level" \notin DOMAIN call[c].arg
        /\ \A key \in DOMAIN Vocabulary : Attr(c, key) \in Vocabulary[key]

\* A query has returned with a driver and a band found in the tables.
C13_WitnessQuery ==
    \E c \in Callers :
        /\ QueryDone(c)
        /\ Attr(c, "churn_driver") = PyStr("defect_frustration")
        /\ Attr(c, "usage_band") = PyStr("growing")

\* The metadata of the record a call has returned.
Meta(c, key) == result[c].value.metadata[key]

\* C14: for every entry of which entry_to_record returns a record, the
\* metadata's original_question is the entry's question as given ("" when the
\* entry has none), response and recommended_action are the entry's values or
\* "", and the metadata's risk_level and churn_driver are the attributes'.
C14_MetadataCarriesEntry ==
    \A c \in Callers :
        RecordDone(c) =>
            LET entry == call[c].arg
                given(key) == IF key \in DOMAIN entry THEN entry[key] ELSE PyStr("")
            IN  /\ Meta(c, "original_question") = given("question")
                /\ Meta(c, "response") = given("response")
                /\ Meta(c, "recommended_action") = given("recommended_action")
                /\ Meta(c, "risk_level") = Attr(c, "risk_level")
                /\ Meta(c, "churn_driver") = Attr(c, "churn_driver")

\* C15: every trigger of the risk table is effective for its own level: the
\* query that is exactly a trigger listed under a level has that risk level.
C15_TriggersEffective ==
    \A c \in Callers :
        QueryDone(c) =>
            \A level \in DOMAIN TriggerSets :
                call[c].arg \in TriggersOf(level) => Attr(c, "risk_level") = PyStr(level)

\* entry_to_record has computed the slug of its question.
SlugComputed(c) == pc[c] = "entry_to_record:253"

\* The slug is at most 40 characters of a-z, 0-9 and "_".
SlugInAlphabet(slug) ==
    /\ Len(slug) <= 40
    /\ \A i \in 1..Len(slug) : SubSeq(slug, i, i) \in AzDigitChars \cup {"_"}

\* No two underscores of the slug are adjacent.
SlugRunsCollapsed(slug) ==
    \A i \in 1..(Len(slug) - 1) : SubSeq(slug, i, i + 1) # "__"

\* The slug neither begins nor ends with an underscore.
SlugTrimmed(slug) ==
    slug # "" => SubSeq(slug, 1, 1) # "_" /\ SubSeq(slug, Len(slug), Len(slug)) # "_"

\* C16, as claimed: the slug entry_to_record computes from the lowercased question is at
\* most 40 characters over a-z, 0-9 and "_", has every run of other characters
\* collapsed to one underscore, and neither begins nor ends with an underscore.
C16_SlugShape ==
    \A c \in Callers :
        SlugComputed(c) =>
            /\ SlugInAlphabet(frame[c].slug)
            /\ SlugRunsCollapsed(frame[c].slug)
            /\ SlugTrimmed(frame[c].slug)

\* C16, amended: the slug is at most 40 characters over a-z, 0-9 and "_",
\* has no two adjacent underscores and does not begin with an underscore; it
\* ends with an underscore only when it is 40 characters long, the cut of a
\* longer text (the underscores are trimmed before the cut, not after).
C16_SlugShapeUpToCut ==
    \A c \in Callers :
        SlugComputed(c) =>
            LET slug == frame[c].slug
            IN  /\ SlugInAlphabet(slug)
                /\ SlugRunsCollapsed(slug)
                /\ slug # "" => SubSeq(slug, 1, 1) # "_"
                /\ Len(slug) < SlugLen => SlugTrimmed(slug)

\* The slug of a long question has been cut just after an underscore.
C16_Witness ==
    \E c \in Callers :
        /\ SlugComputed(c)
        /\ Len(frame[c].question) > SlugLen
        /\ frame[c].slug = "which_accounts_are_at_risk_of_churn_now_"

\* The slug of a short question with punctuation at both ends of a word run.
C16_WitnessShort ==
    \E c \in Callers :
        /\ SlugComputed(c)
        /\ frame[c].question = "zero logins -- at risk?!"
        /\ frame[c].slug = "zero_logins_at_risk"

====
